---- MODULE Spec2Model ----
(***************************************************************************)
(* Model of lib/cassandra.js (node_cassandra): the Client ("Session"), its *)
(* ColumnFamily objects ("Table Handles"), their readiness-gated command   *)
(* queues, the reply translation of get, and the enumerate cursor.         *)
(*                                                                         *)
(* Environment assumptions: the application has registered an 'error'      *)
(* listener on the Client (so emit('error') returns); thrift replies       *)
(* arrive in the order the requests were sent on the one connection; every *)
(* operation is called with a callback; the column family read by          *)
(* enumerate in Spec is empty (EnumSpec models enumerate over K rows).     *)
(*                                                                         *)
(* TransportSpec adds the connection's 'error' event and close() to Spec.  *)
(* ConsistencySpec and WriteSpec model the requests that get, count, set   *)
(* and remove build on a ready ColumnFamily: their arguments have the      *)
(* shapes the operations document, the store keeps one row, applies        *)
(* mutations by timestamp (a deletion wins over a column of its own        *)
(* timestamp) and the clock does not run backwards.                        *)
(***************************************************************************)
EXTENDS Integers, Sequences, FiniteSets, TLC

(* ---------------------------- bounds ----------------------------------- *)
MaxCmds == 2        \* operation calls made by the application
MaxHandles == 2     \* ColumnFamily objects constructed
MaxRows == 5        \* rows of the column family read by enumerate
MaxStride == 4      \* largest options.stride given to enumerate
MaxKeys == 2        \* largest number of keys given to get
MaxClock == 2       \* milliseconds the clock runs through while a row is written
MaxMult == 2        \* largest timestampMultiplier given to getColumnFamily

(* ---------------------------- data ------------------------------------- *)
Undef == "undefined"
Keyspaces == {"ks1", "ks2"}
Names == {"Standard", "Super"}
\* table definitions of a keyspace (describe_keyspace's cf_defs, by name)
CfDefs(ks) == IF ks = "ks1" THEN {"Standard", "Super"} ELSE {"Standard"}

CfOps == {"get", "count", "set", "remove", "enumerate", "truncate"}
ClientOps == {"use", "addKeySpace", "dropKeySpace"}

\* the thrift request each operation sends once its owner is ready
RpcOf(op) ==
    CASE op = "get" -> "multiget_slice"
      [] op = "count" -> "multiget_count"
      [] op = "set" -> "batch_mutate"
      [] op = "remove" -> "batch_mutate"
      [] op = "enumerate" -> "get_range_slices"
      [] op = "truncate" -> "truncate"
      [] op = "use" -> "describe_keyspace"
      [] op = "addKeySpace" -> "system_add_keyspace"
      [] op = "dropKeySpace" -> "system_drop_keyspace"

VARIABLES
    client,     \* the Client object: ready, queue, keyspace, column_families_,
                \* columnFamilies (cache: name -> index in cfs, 0 = undefined),
                \* conn (state of the thrift connection), credential
    cfs,        \* the ColumnFamily objects, in construction order, which is
                \* the order of their 'keyspaceSet' listeners
    pending,    \* thrift requests sent and not yet answered, oldest first
    log,        \* history: the operation bodies executed, in order
    cbs,        \* history: callbacks invoked, per call id
    errors,     \* history: 'error' events emitted on the Client
    signals,    \* history: 'keyspaceSet' events emitted with definitions
    thrown,     \* history: exceptions thrown into the application
    nextId,     \* id of the next operation call
    en,         \* one enumerate() call on a ready ColumnFamily (EnumSpec)
    gt,         \* one get() call on a ready ColumnFamily (GetSpec)
    ev,         \* history: slice calls, close(), the connection's 'error'
                \* events and what became of them
    cq,         \* the Client's defaultCL and the last request built by
                \* get/count/set/remove on a ready ColumnFamily (ConsistencySpec)
    wr          \* the clock, one row of the store and the last deletion sent
                \* by remove on a ready ColumnFamily (WriteSpec)

vars == <<client, cfs, pending, log, cbs, errors, signals, thrown, nextId, en, gt, ev, cq, wr>>

(* the part of the state the synchronous code paths read and write *)
World == [client |-> client, cfs |-> cfs, pending |-> pending, log |-> log,
          errors |-> errors, signals |-> signals]

\* history record of one execution of an operation body
Ran(w, owner, d, drained) ==
    [id |-> d.id, owner |-> owner, op |-> d.op, drained |-> drained,
     sig |-> w.signals]

Desc(id, op, arg) == [id |-> id, op |-> op, arg |-> arg]

(* ------------------------ Client.prototype ----------------------------- *)

\* body of use/addKeySpace/dropKeySpace once this.ready holds
\* (lines 112-138, 170, 185): use rebinds keyspace, clears the handle cache
\* and requests describe_keyspace; the other two only send their request.
ClientRun(w, d, drained) ==
    LET c == IF d.op = "use"
             THEN [w.client EXCEPT !.keyspace = d.arg,
                                   !.columnFamilies = [n \in Names |-> 0]]
             ELSE w.client
    IN [w EXCEPT !.client = c,
                 !.pending = Append(@, [rpc |-> RpcOf(d.op), owner |-> 0,
                                        id |-> d.id, op |-> d.op, arg |-> d.arg]),
                 !.log = Append(@, Ran(w, 0, d, drained))]

\* a public Client operation: queued while not ready, run otherwise
ClientCall(w, d, drained) ==
    IF ~w.client.ready
    THEN [w EXCEPT !.client.queue = Append(@, d)]
    ELSE ClientRun(w, d, drained)

\* a slip: the drain runs the head of the queue and does not go on
ClientDispatchOnce(w) ==
    IF w.client.ready /\ Len(w.client.queue) > 0
    THEN ClientCall([w EXCEPT !.client.queue = Tail(@)], Head(w.client.queue), TRUE)
    ELSE w

RECURSIVE ClientDispatch(_)
ClientDispatch(w) ==
    IF w.client.ready /\ Len(w.client.queue) > 0
    THEN LET next == Head(w.client.queue)
             w1 == [w EXCEPT !.client.queue = Tail(@)]
         IN ClientDispatch(ClientCall(w1, next, TRUE))
    ELSE w

(* --------------------- ColumnFamily.prototype -------------------------- *)

\* body of get/count/set/remove/enumerate/truncate once this.ready holds:
\* one thrift request
CfRun(w, h, d, drained) ==
    [w EXCEPT !.pending = Append(@, [rpc |-> RpcOf(d.op), owner |-> h,
                                     id |-> d.id, op |-> d.op, arg |-> d.arg]),
              !.log = Append(@, Ran(w, h, d, drained))]

\* a slip: the call is also run while the handle is not ready
CfCallEager(w, h, d, drained) ==
    IF ~w.cfs[h].ready
    THEN CfRun([w EXCEPT !.cfs[h].queue = Append(@, d)], h, d, drained)
    ELSE CfRun(w, h, d, drained)

CfCall(w, h, d, drained) ==
    IF ~w.cfs[h].ready
    THEN [w EXCEPT !.cfs[h].queue = Append(@, d)]
    ELSE CfRun(w, h, d, drained)

\* a slip: pop() in place of shift(), the queue is drained from its end
RECURSIVE CfDispatchLifo(_, _)
CfDispatchLifo(w, h) ==
    IF w.cfs[h].ready
    THEN IF Len(w.cfs[h].queue) > 0
         THEN LET q == w.cfs[h].queue
                  next == q[Len(q)]
                  w1 == [w EXCEPT !.cfs[h].queue = SubSeq(q, 1, Len(q) - 1)]
              IN CfDispatchLifo(CfCall(w1, h, next, TRUE), h)
         ELSE w
    ELSE w

\* a slip: the queue is walked, not shifted, and keeps its descriptors
RECURSIVE RunAll(_, _, _)
RunAll(w, h, k) ==
    IF k > Len(w.cfs[h].queue) THEN w
    ELSE RunAll(CfRun(w, h, w.cfs[h].queue[k], TRUE), h, k + 1)

CfDispatchKeep(w, h) == IF w.cfs[h].ready THEN RunAll(w, h, 1) ELSE w

RECURSIVE CfDispatch(_, _)
CfDispatch(w, h) ==
    IF w.cfs[h].ready
    THEN IF Len(w.cfs[h].queue) > 0
         THEN LET next == Head(w.cfs[h].queue)
                  w1 == [w EXCEPT !.cfs[h].queue = Tail(@)]
              IN CfDispatch(CfCall(w1, h, next, TRUE), h)
         ELSE w
    ELSE w

\* the 'keyspaceSet' listener of ColumnFamily h, called with cfdef # undefined
\* (cfdef is given by the keyspace whose definitions it holds)
KeyspaceSetListener(w, h, cfdef) ==
    LET found == w.cfs[h].name \in CfDefs(cfdef)
        w1 == IF found THEN w ELSE [w EXCEPT !.errors = @ + 1]
        w2 == IF found THEN [w1 EXCEPT !.cfs[h].def = cfdef] ELSE w1
        w3 == [w2 EXCEPT !.cfs[h].ready = TRUE]
    IN CfDispatch(w3, h)

\* client.emit('keyspaceSet', cfdef): the listeners run in registration order
RECURSIVE EmitFrom(_, _, _)
EmitFrom(w, h, cfdef) ==
    IF h > Len(w.cfs) THEN w
    ELSE EmitFrom(KeyspaceSetListener(w, h, cfdef), h + 1, cfdef)

EmitKeyspaceSet(w, cfdef) == EmitFrom([w EXCEPT !.signals = @ + 1], 1, cfdef)

(* --------------------- ColumnFamily.prototype.get ---------------------- *)

RowKeys == {"row1", "row2"}
ColNames == {"a", "b"}
SubNames == {"x", "y"}
Values == {"1", "2"}

Put(obj, k, v) == [x \in DOMAIN obj \cup {k} |-> IF x = k THEN v ELSE obj[x]]

\* the inner loop over col.columns (lines 309-313): j runs from the last
\* subcolumn down to the first
RECURSIVE SubObj(_, _, _)
SubObj(obj, columns, j) ==
    IF j = 0 THEN obj
    ELSE SubObj(Put(obj, columns[j].name, columns[j].value), columns, j - 1)

\* the loop over res[key] (lines 303-319): i runs from the last
\* ColumnOrSuperColumn down to the first
RECURSIVE RowObj(_, _, _)
RowObj(obj, cols, i) ==
    IF i = 0 THEN obj
    ELSE IF cols[i].kind = "super"
         THEN RowObj(Put(obj, cols[i].name,
                         SubObj(<<>>, cols[i].columns, Len(cols[i].columns))),
                     cols, i - 1)
         ELSE RowObj(Put(obj, cols[i].name, cols[i].value), cols, i - 1)

\* the second argument get passes to its callback (lines 298-325); on an
\* error reply res is undefined, given here as the empty mapping
\* a slip: the result is unwrapped by the number of rows of the reply,
\* not by the number of keys asked for
GetCallbackArgByReply(keys, res) ==
    LET obj == [key \in DOMAIN res |-> RowObj(<<>>, res[key], Len(res[key]))]
    IN IF Cardinality(DOMAIN res) = 1
       THEN [defined |-> TRUE, value |-> obj[CHOOSE k \in DOMAIN res : TRUE]]
       ELSE [defined |-> TRUE, value |-> obj]

GetCallbackArg(keys, res) ==
    LET obj == [key \in DOMAIN res |-> RowObj(<<>>, res[key], Len(res[key]))]
    IN IF Len(keys) = 1
       THEN IF keys[1] \in DOMAIN obj
            THEN [defined |-> TRUE, value |-> obj[keys[1]]]
            ELSE [defined |-> FALSE, value |-> <<>>]
       ELSE [defined |-> TRUE, value |-> obj]

GtIdle == [keys |-> <<>>, state |-> "idle", error |-> FALSE, res |-> <<>>,
           calls |-> 0, result |-> [defined |-> FALSE, value |-> <<>>]]

(* ------------------ ColumnFamily.prototype.enumerate ------------------- *)

\* get_range_slices with KeyRange{start_key, end_key: '', count} on a column
\* family whose rows have the keys 1..nrows in ring order; start_key '' is
\* given as 0, and a start_key is inclusive
RangeSlice(nrows, start_key, count) ==
    LET lo == IF start_key = 0 THEN 1 ELSE start_key
        hi == IF lo + count - 1 < nrows THEN lo + count - 1 ELSE nrows
    IN [j \in 1..(IF hi >= lo THEN hi - lo + 1 ELSE 0) |-> lo + j - 1]

\* a slip: the row in the page's last slot is delivered as well as used to
\* start the next page
RowbackLastToo(e, rows, i) ==
    IF i >= Len(rows)
    THEN IF e.stride > Len(rows)
         THEN [e EXCEPT !.doneCalls = @ + 1]
         ELSE [e EXCEPT !.errCalls = @ + 1]
    ELSE IF e.stride - 1 = i
         THEN [e EXCEPT !.ticks = Append(@, rows[i + 1]),
                        !.delivered = Append(@, rows[i + 1]),
                        !.unacked = @ \cup {[key |-> rows[i + 1], i |-> i,
                                             rows |-> rows]}]
         ELSE [e EXCEPT !.delivered = Append(@, rows[i + 1]),
                        !.unacked = @ \cup {[key |-> rows[i + 1], i |-> i,
                                             rows |-> rows]}]

\* a slip: the row after the delivered one is delivered at once, without
\* waiting for done
RowbackNoWait(e, rows, i) ==
    IF i >= Len(rows)
    THEN IF e.stride > Len(rows)
         THEN [e EXCEPT !.doneCalls = @ + 1]
         ELSE [e EXCEPT !.errCalls = @ + 1]
    ELSE IF e.stride - 1 = i
         THEN [e EXCEPT !.ticks = Append(@, rows[i + 1])]
         ELSE IF i + 1 < Len(rows) /\ e.stride - 1 # i + 1
              THEN [e EXCEPT !.delivered = @ \o <<rows[i + 1], rows[i + 2]>>,
                             !.unacked = @ \cup {[key |-> rows[i + 1], i |-> i,
                                                  rows |-> rows],
                                                 [key |-> rows[i + 2], i |-> i + 1,
                                                  rows |-> rows]}]
              ELSE [e EXCEPT !.delivered = Append(@, rows[i + 1]),
                             !.unacked = @ \cup {[key |-> rows[i + 1], i |-> i,
                                                  rows |-> rows]}]

\* rowback(i) of the page rows (lines 559-599); i counts from 0
Rowback(e, rows, i) ==
    IF i >= Len(rows)
    THEN IF e.stride > Len(rows)
         THEN [e EXCEPT !.doneCalls = @ + 1]
         ELSE [e EXCEPT !.errCalls = @ + 1]
    ELSE IF e.stride - 1 = i
         THEN [e EXCEPT !.ticks = Append(@, rows[i + 1])]
         ELSE [e EXCEPT !.delivered = Append(@, rows[i + 1]),
                        !.unacked = @ \cup {[key |-> rows[i + 1], i |-> i,
                                             rows |-> rows]}]

EnIdle == [nrows |-> 0, stride |-> 1, called |-> FALSE, requests |-> <<>>,
           ticks |-> <<>>, unacked |-> {}, delivered |-> <<>>,
           doneCalls |-> 0, errCalls |-> 0]

(* ------------- arguments of get, count, set and remove ----------------- *)

\* ttypes.ConsistencyLevel: levels an application passes; none is falsy
Levels == {"ONE", "QUORUM", "ALL"}
QUORUM == "QUORUM"
Null == "null"

\* a || b
Falsy(v) == v \in {Undef, Null}
JsOr(a, b) == IF Falsy(a) THEN b ELSE a

\* the values an application passes after the key: a string, an Array of
\* column names, an options object (cl is its consistencyLevel property,
\* Undef when it has none), or nothing
JsUndef == [t |-> "undefined", s |-> "", names |-> <<>>, cl |-> Undef]
JsStr(s) == [t |-> "string", s |-> s, names |-> <<>>, cl |-> Undef]
JsArr(names) == [t |-> "array", s |-> "", names |-> names, cl |-> Undef]
JsObj(cl) == [t |-> "object", s |-> "", names |-> <<>>, cl |-> cl]

\* args.shift() of the k-th value
Shift(args, k) == IF k <= Len(args) THEN args[k] ELSE JsUndef
Truthy(v) == v.t # "undefined" /\ ~(v.t = "string" /\ v.s = "")
\* typeof v.slice === 'function': strings and Arrays
HasSlice(v) == v.t \in {"string", "array"}
\* columns = v.slice(); if (!(columns instanceof Array)) columns = [columns]
ColumnsOf(v) == IF v.t = "array" THEN v.names ELSE <<v.s>>
\* (v || default_options).consistencyLevel
OptionsCL(v) == IF ~Truthy(v) THEN Null ELSE IF v.t = "object" THEN v.cl ELSE Undef
\* default_options overlaid with the own properties of v, .consistencyLevel
OverlaidCL(v) == IF v.t = "object" /\ v.cl # Undef THEN v.cl ELSE Null

NamesPredicate(columns) ==
    [column_names |-> columns, has_names |-> TRUE, slice_range |-> FALSE]
RangePredicate ==
    [column_names |-> <<>>, has_names |-> FALSE, slice_range |-> TRUE]

\* columns_or_options and what follows it (lines 723-747, 661-683)
ParseColumnsOrOptions(args, k) ==
    LET columns_or_options == Shift(args, k)
    IN IF Truthy(columns_or_options)
       THEN IF HasSlice(columns_or_options)
            THEN [predicate |-> NamesPredicate(ColumnsOf(columns_or_options)),
                  cl |-> OptionsCL(Shift(args, k + 1))]
            ELSE [predicate |-> RangePredicate,
                  cl |-> OverlaidCL(columns_or_options)]
       ELSE [predicate |-> RangePredicate, cl |-> Null]

\* [ColumnParent, SlicePredicate, options.consistencyLevel]
ParseArgumentsForStandardCF(name, args) ==
    LET m == ParseColumnsOrOptions(args, 1)
    IN [column_parent |-> [column_family |-> name, super_column |-> Undef],
        predicate |-> m.predicate, cl |-> m.cl]

ParseArgumentsForSuperCF(name, args) ==
    LET super_column_or_options == Shift(args, 1)
    IN IF Truthy(super_column_or_options)
       THEN IF super_column_or_options.t = "string"
            THEN LET m == ParseColumnsOrOptions(args, 2)
                 IN [column_parent |-> [column_family |-> name,
                                        super_column |-> super_column_or_options.s],
                     predicate |-> m.predicate, cl |-> m.cl]
            ELSE [column_parent |-> [column_family |-> name, super_column |-> Undef],
                  predicate |-> RangePredicate,
                  cl |-> OverlaidCL(super_column_or_options)]
       ELSE [column_parent |-> [column_family |-> name, super_column |-> Undef],
             predicate |-> RangePredicate, cl |-> Null]

MethodArgs(isSuper, name, args) ==
    IF isSuper THEN ParseArgumentsForSuperCF(name, args)
    ELSE ParseArgumentsForStandardCF(name, args)

\* a slip: get and count fall back to the default write level
ReadRequestWriteDefault(rpc, defaultCL, isSuper, name, args) ==
    LET method_args == MethodArgs(isSuper, name, args)
    IN [rpc |-> rpc, column_parent |-> method_args.column_parent,
        predicate |-> method_args.predicate,
        cl |-> JsOr(method_args.cl, defaultCL.write)]

\* the request of get (multiget_slice) and of count (multiget_count)
ReadRequest(rpc, defaultCL, isSuper, name, args) ==
    LET method_args == MethodArgs(isSuper, name, args)
    IN [rpc |-> rpc, column_parent |-> method_args.column_parent,
        predicate |-> method_args.predicate,
        cl |-> JsOr(method_args.cl, defaultCL.read)]

\* the batch_mutate of set; values is given by its columns, each a record
\* [sc, col, value] (sc is Undef in a standard column family)
SetRequest(defaultCL, values, options, ts) ==
    [rpc |-> "batch_mutate",
     columns |-> {[sc |-> c.sc, col |-> c.col, value |-> c.value, timestamp |-> ts] :
                     c \in values},
     cl |-> JsOr(OptionsCL(options), defaultCL.write)]

\* a slip: the Deletion is sent without its predicate
RemoveRequestNoPredicate(defaultCL, isSuper, name, args, ts) ==
    LET method_args == MethodArgs(isSuper, name, args)
    IN [rpc |-> "batch_mutate",
        deletion |-> [timestamp |-> ts,
                      super_column |-> method_args.column_parent.super_column,
                      predicate |-> [null |-> TRUE, column_names |-> <<>>]],
        cl |-> JsOr(method_args.cl, defaultCL.write)]

\* the batch_mutate of remove
RemoveRequest(defaultCL, isSuper, name, args, ts) ==
    LET method_args == MethodArgs(isSuper, name, args)
    IN [rpc |-> "batch_mutate",
        deletion |-> [timestamp |-> ts,
                      super_column |-> method_args.column_parent.super_column,
                      predicate |-> IF method_args.predicate.has_names
                                    THEN [null |-> FALSE,
                                          column_names |-> method_args.predicate.column_names]
                                    ELSE [null |-> TRUE, column_names |-> <<>>]],
        cl |-> JsOr(method_args.cl, defaultCL.write)]

\* a slip: a field that is not supplied keeps its value
ConsistencyLevelKeep(defaultCL, newCL) ==
    [read |-> JsOr(newCL.read, defaultCL.read),
     write |-> JsOr(newCL.write, defaultCL.write)]

\* Client.prototype.consistencyLevel(newCL): the new defaultCL
ConsistencyLevel(defaultCL, newCL) ==
    [read |-> JsOr(newCL.read, QUORUM), write |-> JsOr(newCL.write, QUORUM)]

EvIdle == [slices |-> 0, closed |-> FALSE, connErrors |-> 0, crashed |-> FALSE]

NoArgs == <<>>
\* defaultCL as the constructor leaves it (lines 31-34); set, newCL: the
\* last call of the setter; asked, got: the getter's result since then;
\* op, args, cl: the last request built and its consistency level; tick
\* changes with every request built
CqIdle == [defaultCL |-> [read |-> QUORUM, write |-> QUORUM],
           set |-> FALSE, newCL |-> [read |-> Undef, write |-> Undef],
           asked |-> FALSE, got |-> [read |-> QUORUM, write |-> QUORUM],
           op |-> "none", args |-> NoArgs, cl |-> Undef, tick |-> FALSE]

(* ------------- the row that set and remove write to -------------------- *)

\* the columns one row can hold: [sc, col], sc the super column (Undef in
\* a standard column family)
StdCells == {[sc |-> Undef, col |-> c] : c \in ColNames}
SuperCells == {[sc |-> "a", col |-> "x"], [sc |-> "a", col |-> "y"],
               [sc |-> "b", col |-> "x"]}
CellsOf(isSuper) == IF isSuper THEN SuperCells ELSE StdCells

NoCell == [live |-> FALSE, value |-> Undef, ts |-> 0]
ValueLess(v, w) == v = "1" /\ w = "2"

\* batch_mutate applies a Column: the later timestamp wins, a deletion wins
\* over a column of its own timestamp, the greater of two values written
\* with one timestamp wins
InsertColumn(cell, value, ts) ==
    IF ts > cell.ts \/ (ts = cell.ts /\ cell.live /\ ValueLess(cell.value, value))
    THEN [live |-> TRUE, value |-> value, ts |-> ts]
    ELSE cell

StoreColumns(cells, columns) ==
    [c \in DOMAIN cells |->
        IF \E m \in columns : m.sc = c.sc /\ m.col = c.col
        THEN LET m == CHOOSE m \in columns : m.sc = c.sc /\ m.col = c.col
             IN InsertColumn(cells[c], m.value, m.timestamp)
        ELSE cells[c]]

\* the columns a Deletion names: the whole row, one super column, or the
\* listed columns (of the row or of the super column)
Covers(deletion, c) ==
    /\ deletion.super_column # Undef => c.sc = deletion.super_column
    /\ ~deletion.predicate.null =>
           \E i \in 1..Len(deletion.predicate.column_names) :
               deletion.predicate.column_names[i]
                   = (IF deletion.super_column = Undef /\ c.sc # Undef
                      THEN c.sc ELSE c.col)

\* batch_mutate applies a Deletion to everything it names that was not
\* written with a later timestamp
StoreDeletion(cells, deletion) ==
    [c \in DOMAIN cells |->
        IF Covers(deletion, c) /\ deletion.timestamp >= cells[c].ts
        THEN [live |-> FALSE, value |-> Undef, ts |-> deletion.timestamp]
        ELSE cells[c]]

ColOrder == <<"a", "b">>
SubOrder == <<"x", "y">>

\* the reply of multiget_slice for the row, read with the default slice
\* range: its live columns in name order
StoreRow(isSuper, cells) ==
    IF isSuper
    THEN LET SubLive(s) == LET L(c) == /\ [sc |-> s, col |-> c] \in DOMAIN cells
                                       /\ cells[[sc |-> s, col |-> c]].live
                           IN SelectSeq(SubOrder, L)
             SupLive(s) == SubLive(s) # <<>>
             sups == SelectSeq(ColOrder, SupLive)
         IN [i \in 1..Len(sups) |->
                [kind |-> "super", name |-> sups[i], value |-> "",
                 columns |-> [j \in 1..Len(SubLive(sups[i])) |->
                                 [name |-> SubLive(sups[i])[j],
                                  value |-> cells[[sc |-> sups[i],
                                                   col |-> SubLive(sups[i])[j]]].value]]]]
    ELSE LET Live(n) == /\ [sc |-> Undef, col |-> n] \in DOMAIN cells
                        /\ cells[[sc |-> Undef, col |-> n]].live
             names == SelectSeq(ColOrder, Live)
         IN [i \in 1..Len(names) |->
                [kind |-> "column", name |-> names[i],
                 value |-> cells[[sc |-> Undef, col |-> names[i]]].value,
                 columns |-> <<>>]]

\* what get('row1', callback) passes to its callback
GetView(isSuper, cells) ==
    GetCallbackArg(<<"row1">>, [k \in {"row1"} |-> StoreRow(isSuper, cells)]).value

\* this.timestampMultiplier of a ColumnFamily made without one
TimestampMultiplier == 1

\* now: new Date().getTime(); mult: this.timestampMultiplier; cells: the
\* row 'row1'; last, ts, args, del: the last mutation sent and its
\* timestamp, and for a remove its arguments and its Deletion
WrIdle == [now |-> 1, mult |-> TimestampMultiplier, ts |-> 0,
           cells |-> [c \in StdCells |-> NoCell],
           last |-> "none", args |-> NoArgs,
           del |-> [timestamp |-> 0, super_column |-> Undef,
                    predicate |-> [null |-> TRUE, column_names |-> <<>>]]]

(* ------------------------------ state ---------------------------------- *)

Commit(w) ==
    /\ client' = w.client
    /\ cfs' = w.cfs
    /\ pending' = w.pending
    /\ log' = w.log
    /\ errors' = w.errors
    /\ signals' = w.signals

ClientInit ==
    /\ client = [ready |-> FALSE, queue |-> <<>>, keyspace |-> Undef,
                 column_families_ |-> Undef,
                 columnFamilies |-> [n \in Names |-> 0],
                 conn |-> "none", credential |-> FALSE]
    /\ cfs = <<>>
    /\ pending = <<>>
    /\ log = <<>>
    /\ cbs = [i \in 0..MaxCmds |-> 0]
    /\ errors = 0
    /\ signals = 0
    /\ thrown = 0
    /\ nextId = 1

Init ==
    /\ ClientInit
    /\ en = EnIdle
    /\ gt = GtIdle
    /\ ev = EvIdle
    /\ cq = CqIdle
    /\ wr = WrIdle

(* ------------------------------ actions -------------------------------- *)

\* Client.prototype.connect(keyspace?, credential?); with a keyspace the
\* call to this.use at its end is queued, as this.ready was just cleared
Connect(ks, cred) ==
    /\ client.conn = "none"
    /\ client' = [client EXCEPT
                    !.keyspace = ks,
                    !.ready = FALSE,
                    !.queue = IF ks # Undef THEN <<Desc(0, "use", ks)>> ELSE <<>>,
                    !.conn = "connecting",
                    !.credential = cred]
    /\ UNCHANGED <<cfs, pending, log, cbs, errors, signals, thrown, nextId, en, gt, ev, cq, wr>>

\* the connection's 'connect' event (lines 68-88)
OnConnect(error) ==
    /\ client.conn = "connecting"
    /\ IF error
       THEN Commit([World EXCEPT !.client.conn = "failed", !.errors = @ + 1])
       ELSE IF client.credential
            THEN Commit([World EXCEPT
                     !.client.conn = "open",
                     !.pending = Append(@, [rpc |-> "login", owner |-> 0,
                                            id |-> 0, op |-> "login", arg |-> Undef])])
            ELSE Commit(ClientDispatch([World EXCEPT !.client.conn = "open",
                                                     !.client.ready = TRUE]))
    /\ UNCHANGED <<cbs, thrown, nextId, en, gt, ev, cq, wr>>

\* reply to login (lines 75-83)
LoginReply(error) ==
    /\ pending # <<>>
    /\ Head(pending).rpc = "login"
    /\ LET w == [World EXCEPT !.pending = Tail(@)]
       IN IF error
          THEN Commit([w EXCEPT !.errors = @ + 1])
          ELSE Commit(ClientDispatch([w EXCEPT !.client.ready = TRUE]))
    /\ UNCHANGED <<cbs, thrown, nextId, en, gt, ev, cq, wr>>

\* the application calls use, addKeySpace or dropKeySpace
ClientOpCall(op, arg) ==
    /\ nextId <= MaxCmds
    /\ nextId' = nextId + 1
    /\ IF client.conn = "none"
       THEN \* this.queue is undefined before connect: push throws a TypeError
            /\ thrown' = thrown + 1
            /\ UNCHANGED <<client, cfs, pending, log, errors, signals>>
       ELSE /\ Commit(ClientCall(World, Desc(nextId, op, arg), FALSE))
            /\ UNCHANGED thrown
    /\ UNCHANGED <<cbs, en, gt, ev, cq, wr>>

\* reply to describe_keyspace (lines 116-138)
DescribeKeyspaceReply(error) ==
    /\ pending # <<>>
    /\ Head(pending).rpc = "describe_keyspace"
    /\ LET w == [World EXCEPT !.pending = Tail(@)]
           r == Head(pending)
       IN IF error
          THEN Commit([w EXCEPT !.errors = @ + 1])
          ELSE Commit([w EXCEPT
                   !.client.column_families_ = r.arg,
                   !.pending = Append(@, [rpc |-> "set_keyspace", owner |-> 0,
                                          id |-> r.id, op |-> "use",
                                          arg |-> w.client.keyspace])])
    /\ UNCHANGED <<cbs, thrown, nextId, en, gt, ev, cq, wr>>

\* reply to set_keyspace (lines 131-137)
SetKeyspaceReply(error) ==
    /\ pending # <<>>
    /\ Head(pending).rpc = "set_keyspace"
    /\ LET w == [World EXCEPT !.pending = Tail(@)]
       IN IF error
          THEN Commit([w EXCEPT !.errors = @ + 1])
          ELSE Commit(EmitKeyspaceSet(w, w.client.column_families_))
    /\ UNCHANGED <<cbs, thrown, nextId, en, gt, ev, cq, wr>>

\* Client.prototype.getColumnFamily(name) and the ColumnFamily constructor
GetColumnFamily(name) ==
    IF client.columnFamilies[name] # 0
    THEN UNCHANGED vars
    ELSE /\ Len(cfs) < MaxHandles
         /\ LET h == Len(cfs) + 1
                new == [name |-> name, queue |-> <<>>, ready |-> FALSE,
                        def |-> Undef, held |-> FALSE]
                w == [World EXCEPT !.cfs = Append(@, new)]
                kept == [w EXCEPT !.cfs[h].held = TRUE,
                                  !.client.columnFamilies[name] = h]
            IN IF ~client.ready
               THEN Commit(kept) /\ UNCHANGED thrown
               ELSE IF client.column_families_ = Undef
                    THEN \* cfdef[self.name] on undefined: the first listener
                         \* throws, the constructor does not return
                         Commit(w) /\ thrown' = thrown + 1
                    ELSE Commit(EmitKeyspaceSet(kept, client.column_families_))
                         /\ UNCHANGED thrown
         /\ UNCHANGED <<cbs, nextId, en, gt, ev, cq, wr>>

\* the application calls an operation of a ColumnFamily it holds
CfOpCall(h, op) ==
    /\ nextId <= MaxCmds
    /\ h \in 1..Len(cfs)
    /\ cfs[h].held
    /\ nextId' = nextId + 1
    /\ Commit(CfCall(World, h, Desc(nextId, op, Undef), FALSE))
    /\ UNCHANGED <<cbs, thrown, en, gt, ev, cq, wr>>

\* a slip: slice queues itself on a ColumnFamily that is not ready, as the
\* other operations do
SliceQueued(h) ==
    /\ nextId <= MaxCmds
    /\ h \in 1..Len(cfs)
    /\ cfs[h].held
    /\ nextId' = nextId + 1
    /\ ev' = [ev EXCEPT !.slices = @ + 1]
    /\ IF ~cfs[h].ready
       THEN Commit([World EXCEPT !.cfs[h].queue = Append(@, Desc(nextId, "slice", Undef))])
       ELSE Commit([World EXCEPT !.errors = @ + 1])
    /\ UNCHANGED <<cbs, thrown, en, gt, cq, wr>>

\* the application calls slice on a ColumnFamily it holds (lines 388-390)
Slice(h) ==
    /\ nextId <= MaxCmds
    /\ h \in 1..Len(cfs)
    /\ cfs[h].held
    /\ nextId' = nextId + 1
    /\ ev' = [ev EXCEPT !.slices = @ + 1]
    /\ Commit([World EXCEPT !.errors = @ + 1])
    /\ UNCHANGED <<cbs, thrown, en, gt, cq, wr>>

\* number of callback invocations the reply handler of an operation makes
Callbacks(op, error) ==
    IF op \in {"get", "count"} /\ error THEN 2 ELSE 1

\* reply to the request of an operation other than use
OpReply(error) ==
    /\ pending # <<>>
    /\ Head(pending).rpc \notin {"login", "describe_keyspace", "set_keyspace"}
    /\ pending' = Tail(pending)
    /\ cbs' = [cbs EXCEPT ![Head(pending).id] = @ + Callbacks(Head(pending).op, error)]
    /\ UNCHANGED <<client, cfs, log, errors, signals, thrown, nextId, en, gt, ev, cq, wr>>

Next ==
    \/ \E ks \in Keyspaces \cup {Undef}, cred \in BOOLEAN : Connect(ks, cred)
    \/ \E error \in BOOLEAN : OnConnect(error)
    \/ \E error \in BOOLEAN : LoginReply(error)
    \/ \E ks \in Keyspaces : ClientOpCall("use", ks)
    \/ \E op \in ClientOps \ {"use"} : ClientOpCall(op, Undef)
    \/ \E error \in BOOLEAN : DescribeKeyspaceReply(error)
    \/ \E error \in BOOLEAN : SetKeyspaceReply(error)
    \/ \E name \in Names : GetColumnFamily(name)
    \/ \E h \in 1..MaxHandles, op \in CfOps : CfOpCall(h, op)
    \/ \E h \in 1..MaxHandles : Slice(h)
    \/ \E error \in BOOLEAN : OpReply(error)

Spec == Init /\ [][Next]_vars

(* ======================= command queues (Spec) ========================= *)

QueueOf(o) == IF o = 0 THEN client.queue ELSE cfs[o].queue
Owners == 0..Len(cfs)

\* C1: the commands queued on one owner are run by the drain in the order
\* in which they were called (ids grow in call order): the drained entries of
\* one owner appear in the history in call order, every queue holds its
\* commands in call order, and what is still queued was called later than
\* what the owner's drain has already run.
C1_DrainKeepsCallOrder ==
    /\ \A i, j \in 1..Len(log) :
          (i < j /\ log[i].drained /\ log[j].drained /\ log[i].owner = log[j].owner)
             => log[i].id < log[j].id
    /\ \A o \in Owners :
          /\ \A i, j \in 1..Len(QueueOf(o)) :
                i < j => QueueOf(o)[i].id < QueueOf(o)[j].id
          /\ \A i \in 1..Len(log), k \in 1..Len(QueueOf(o)) :
                (log[i].drained /\ log[i].owner = o) => log[i].id < QueueOf(o)[k].id

\* two commands queued on one ColumnFamily have both been run by its drain
C1_Witness ==
    \E i, j \in 1..Len(log) :
        /\ i < j
        /\ log[i].drained /\ log[j].drained
        /\ log[i].owner = log[j].owner
        /\ log[i].owner >= 1

\* C2: a call of get, count, set, remove, enumerate or truncate on a
\* ColumnFamily that is not ready, and a call of use on a connected Client
\* that is not ready, appends one descriptor to that owner's queue and does
\* nothing else: no request is sent, no callback is invoked, no other field
\* of any ColumnFamily or of the Client changes.  (The Session exists from
\* connect() on: before it, this.queue is undefined and use throws.)
C2_NotReadyCallOnlyQueues ==
    [][ /\ \A h \in 1..Len(cfs), op \in CfOps :
              (CfOpCall(h, op) /\ ~cfs[h].ready)
                 => /\ cfs' = [cfs EXCEPT ![h].queue = Append(@, Desc(nextId, op, Undef))]
                    /\ UNCHANGED <<client, pending, log, cbs, errors, signals, thrown>>
        /\ \A ks \in Keyspaces :
              (ClientOpCall("use", ks) /\ client.conn # "none" /\ ~client.ready)
                 => /\ client' = [client EXCEPT
                                     !.queue = Append(@, Desc(nextId, "use", ks))]
                    /\ UNCHANGED <<cfs, pending, log, cbs, errors, signals, thrown>>
      ]_vars

\* a ColumnFamily that is not ready and a Client that is not ready each
\* hold a descriptor queued by a call of the application
C2_Witness ==
    /\ ~client.ready
    /\ \E k \in 1..Len(client.queue) : client.queue[k].id >= 1
    /\ \E h \in 1..Len(cfs) : ~cfs[h].ready /\ cfs[h].queue # <<>>

\* C3: every command is run at most once: no call id occurs twice in the
\* history of executed operation bodies, and a descriptor that has been run
\* is in no queue any more, whatever 'keyspaceSet' events and ColumnFamily
\* constructions follow.
C3_AtMostOnce ==
    /\ \A i, j \in 1..Len(log) : i # j => log[i].id # log[j].id
    /\ \A o \in Owners : \A k \in 1..Len(QueueOf(o)), i \in 1..Len(log) :
          log[i].id # QueueOf(o)[k].id

\* a ColumnFamily's drain has run a command and a further 'keyspaceSet'
\* event has been emitted since
C3_Witness ==
    \E i \in 1..Len(log) :
        log[i].drained /\ log[i].owner >= 1 /\ log[i].sig < signals

\* C4: when 'keyspaceSet' is emitted with definitions that hold none for a
\* ColumnFamily's name, an 'error' event is emitted on the Client, that
\* ColumnFamily does not become ready and its queue is not drained.
C4_MissingDefinitionNeverReady ==
    [][ \A h \in 1..Len(cfs') :
           ( /\ signals' > signals
             /\ cfs'[h].name \notin CfDefs(client'.column_families_)
             /\ (h <= Len(cfs) => ~cfs[h].ready) )
           => /\ errors' > errors
              /\ ~cfs'[h].ready
              /\ (h <= Len(cfs) => cfs'[h].queue = cfs[h].queue)
      ]_vars

\* C5: when the body of use runs while ColumnFamily objects hold a
\* definition copied after an earlier use, each of them is not ready after
\* that step.
C5_SecondUseResetsHandles ==
    [][ \A h \in 1..Len(cfs) :
           ( /\ Len(log') > Len(log)
             /\ log'[Len(log')].op = "use"
             /\ cfs[h].def # Undef )
           => ~cfs'[h].ready
      ]_vars

\* C15: a call of slice on a ColumnFamily, ready or not, emits one 'error'
\* event on the Client and does nothing else: no request is sent, nothing is
\* queued, no callback is invoked, and no field of the Client or of any
\* ColumnFamily (readiness and queues among them) changes.
C15_SliceOnlyEmitsError ==
    [][ \A h \in 1..Len(cfs) :
           Slice(h) => /\ errors' = errors + 1
                       /\ UNCHANGED <<client, cfs, pending, log, cbs, signals, thrown>>
      ]_vars

\* slice has been called while a ColumnFamily that is not ready holds a
\* queued command
C15_Witness ==
    /\ ev.slices >= 1
    /\ errors >= 1
    /\ \E h \in 1..Len(cfs) : ~cfs[h].ready /\ cfs[h].held /\ cfs[h].queue # <<>>

\* C17: at any moment at most one request of the Client is awaiting its
\* reply.
C17_OneRequestInFlight == Len(pending) <= 1

\* C18: a ready owner's queue is empty in every state; the step that makes
\* an owner ready runs, as drained commands, every descriptor its queue
\* held; a call on a ready ColumnFamily or a ready Client is run in the
\* same step and leaves the queue empty.
C18_ReadyOwnerQueueEmpty ==
    /\ [](/\ client.ready => client.queue = <<>>
          /\ \A h \in 1..Len(cfs) : cfs[h].ready => cfs[h].queue = <<>>)
    /\ [][ /\ (~client.ready /\ client'.ready) =>
                 \A k \in 1..Len(client.queue) :
                     \E i \in (Len(log) + 1)..Len(log') :
                         /\ log'[i].id = client.queue[k].id
                         /\ log'[i].owner = 0 /\ log'[i].drained
           /\ \A h \in 1..Len(cfs) :
                 (~cfs[h].ready /\ cfs'[h].ready) =>
                     \A k \in 1..Len(cfs[h].queue) :
                         \E i \in (Len(log) + 1)..Len(log') :
                             /\ log'[i].id = cfs[h].queue[k].id
                             /\ log'[i].owner = h /\ log'[i].drained
           /\ \A h \in 1..Len(cfs), op \in CfOps :
                 (CfOpCall(h, op) /\ cfs[h].ready) =>
                     /\ cfs' = cfs
                     /\ Len(log') = Len(log) + 1
                     /\ log'[Len(log')].id = nextId /\ ~log'[Len(log')].drained
           /\ \A ks \in Keyspaces :
                 (ClientOpCall("use", ks) /\ client.ready) =>
                     /\ client'.queue = <<>>
                     /\ Len(log') = Len(log) + 1
                     /\ log'[Len(log')].id = nextId /\ ~log'[Len(log')].drained
         ]_vars

\* the drain of the Client has run two commands queued before it became
\* ready, and the drain of a ColumnFamily has run a command
C18_Witness ==
    /\ \E i, j \in 1..Len(log) :
           /\ i < j /\ log[i].owner = 0 /\ log[j].owner = 0
           /\ log[i].drained /\ log[j].drained
    /\ client.ready /\ client.queue = <<>>
    /\ \E i \in 1..Len(log) :
           log[i].owner >= 1 /\ log[i].drained /\ cfs[log[i].owner].queue = <<>>

\* C19: constructing a ColumnFamily while the Client is ready throws no
\* exception, in whatever state the Client is, and on return the
\* ColumnFamily is ready exactly when the Client holds definitions with one
\* for its name.
C19_ConstructionOnReadyClient ==
    [][ \A name \in Names :
           (GetColumnFamily(name) /\ client.ready /\ client.columnFamilies[name] = 0)
              => /\ thrown' = thrown
                 /\ Len(cfs') = Len(cfs) + 1
                 /\ cfs'[Len(cfs')].ready
                       <=> (/\ client.column_families_ # Undef
                            /\ name \in CfDefs(client.column_families_))
      ]_vars

\* C20: the reply to the request of a get or a count, error or not, invokes
\* the call's callback once and emits no 'error' event on the Client.
C20_CallbackOncePerReply ==
    [][ \A error \in BOOLEAN :
           (OpReply(error) /\ Head(pending).op \in {"get", "count"})
              => /\ cbs'[Head(pending).id] = cbs[Head(pending).id] + 1
                 /\ errors' = errors
      ]_vars

\* C21: in every state a ready ColumnFamily that holds a definition holds
\* that of the keyspace the Client has selected: none is ready with a
\* definition of the keyspace selected before, neither one made ready
\* earlier nor one constructed after use has run and before its
\* 'keyspaceSet' event.
C21_ReadyHandleHasCurrentDefinition ==
    \A h \in 1..Len(cfs) :
        (cfs[h].ready /\ cfs[h].def # Undef) => cfs[h].def = client.keyspace

(* ------------------------- enumerate, ready ---------------------------- *)

\* a state of Spec in which ColumnFamily 1 is ready: the state of the
\* ColumnFamily that get and enumerate are called on below
BoundInit ==
    /\ client = [ready |-> TRUE, queue |-> <<>>, keyspace |-> "ks1",
                 column_families_ |-> "ks1",
                 columnFamilies |-> [n \in Names |-> IF n = "Standard" THEN 1 ELSE 0],
                 conn |-> "open", credential |-> FALSE]
    /\ cfs = <<[name |-> "Standard", queue |-> <<>>, ready |-> TRUE,
                def |-> "ks1", held |-> TRUE]>>
    /\ pending = <<>>
    /\ log = <<[id |-> 0, owner |-> 0, op |-> "use", drained |-> TRUE, sig |-> 0]>>
    /\ cbs = [i \in 0..MaxCmds |-> 0]
    /\ errors = 0
    /\ signals = 1
    /\ thrown = 0
    /\ nextId = 1

\* the same with the one ready ColumnFamily named name
BoundInitOf(name) ==
    /\ client = [ready |-> TRUE, queue |-> <<>>, keyspace |-> "ks1",
                 column_families_ |-> "ks1",
                 columnFamilies |-> [n \in Names |-> IF n = name THEN 1 ELSE 0],
                 conn |-> "open", credential |-> FALSE]
    /\ cfs = <<[name |-> name, queue |-> <<>>, ready |-> TRUE,
                def |-> "ks1", held |-> TRUE]>>
    /\ pending = <<>>
    /\ log = <<[id |-> 0, owner |-> 0, op |-> "use", drained |-> TRUE, sig |-> 0]>>
    /\ cbs = [i \in 0..MaxCmds |-> 0]
    /\ errors = 0
    /\ signals = 1
    /\ thrown = 0
    /\ nextId = 1

\* self.isSuper = self.column_type === 'Super' (line 247), column_type
\* copied from the definition
IsSuper(h) == cfs[h].def # Undef /\ cfs[h].name = "Super"

clientVars == <<client, cfs, pending, log, cbs, errors, signals, thrown, nextId>>

(* ------------------- the connection fails or is closed ----------------- *)

\* the connection's 'error' event (lines 62-64): the listener is called with
\* the connection as this, so this.emit('error', error) emits on the
\* connection again and calls the same listener, until the stack is
\* exhausted; the RangeError leaves the event handler uncaught and ends the
\* process.  Nothing is emitted on the Client.
ConnError ==
    /\ ~ev.crashed
    /\ client.conn \in {"connecting", "open"}
    /\ ev' = [ev EXCEPT !.connErrors = @ + 1, !.crashed = TRUE]
    /\ UNCHANGED <<clientVars, en, gt, cq, wr>>

\* Client.prototype.close() (lines 204-206): connection.end() half-closes
\* the socket; a 'connect' event and the replies to requests already sent
\* can still arrive
Close ==
    /\ ~ev.crashed
    /\ ~ev.closed
    /\ client.conn # "none"
    /\ ev' = [ev EXCEPT !.closed = TRUE]
    /\ UNCHANGED <<clientVars, en, gt, cq, wr>>

\* Spec with the connection's 'error' event and close(); the application
\* makes no call after close(), and nothing runs after the process ended
TransportNext ==
    \/ ~ev.crashed /\ ~ev.closed
          /\ \E ks \in Keyspaces \cup {Undef}, cred \in BOOLEAN : Connect(ks, cred)
    \/ ~ev.crashed /\ \E error \in BOOLEAN : OnConnect(error)
    \/ ~ev.crashed /\ \E error \in BOOLEAN : LoginReply(error)
    \/ ~ev.crashed /\ ~ev.closed /\ \E ks \in Keyspaces : ClientOpCall("use", ks)
    \/ ~ev.crashed /\ \E error \in BOOLEAN : DescribeKeyspaceReply(error)
    \/ ~ev.crashed /\ \E error \in BOOLEAN : SetKeyspaceReply(error)
    \/ ~ev.crashed /\ ~ev.closed /\ \E name \in Names : GetColumnFamily(name)
    \/ ~ev.crashed /\ ~ev.closed
          /\ \E h \in 1..MaxHandles, op \in CfOps : CfOpCall(h, op)
    \/ ~ev.crashed /\ \E error \in BOOLEAN : OpReply(error)
    \/ ConnError
    \/ Close

TransportSpec == Init /\ [][TransportNext]_vars

\* C13: a connection error, a 'connect' event carrying an error and a
\* rejected login each emit one 'error' event on the Client, throw nothing,
\* leave the Client not ready and run no queued command.
C13_ConnectFailureReported ==
    [][ /\ (ConnError /\ ~client.ready)
              => /\ errors' = errors + 1
                 /\ ~ev'.crashed /\ thrown' = thrown
                 /\ ~client'.ready /\ log' = log /\ client'.queue = client.queue
        /\ (OnConnect(TRUE) \/ LoginReply(TRUE))
              => /\ errors' = errors + 1
                 /\ ~ev'.crashed /\ thrown' = thrown
                 /\ ~client'.ready /\ log' = log /\ client'.queue = client.queue
        /\ client.conn = "failed" => ~client'.ready
      ]_vars

\* C16: once close() has been called no queued command is run: the history
\* of executed operation bodies does not grow, whatever 'connect' event or
\* reply arrives.
C16_NoDrainAfterClose ==
    [][ ev.closed => log' = log ]_vars

\* enumerate(options, callback, done, errback) on the ready ColumnFamily
\* (lines 521-553): the first page is requested from start_key ''
Enumerate ==
    /\ ~en.called
    /\ en' = [en EXCEPT !.called = TRUE, !.requests = <<0>>]
    /\ UNCHANGED <<clientVars, gt, ev, cq, wr>>

\* get_range_slices_callback (lines 554-602)
GetRangeSlicesReply(error) ==
    /\ en.requests # <<>>
    /\ LET e == [en EXCEPT !.requests = Tail(@)]
           rows == RangeSlice(en.nrows, Head(en.requests), en.stride)
       IN en' = IF error THEN [e EXCEPT !.errCalls = @ + 1]
                ELSE Rowback(e, rows, 0)
    /\ UNCHANGED <<clientVars, gt, ev, cq, wr>>

\* a slip: done(error) reports the error and goes on to the next row
RowDoneGoesOn(c, error) ==
    /\ c \in en.unacked
    /\ LET e == [en EXCEPT !.unacked = @ \ {c}]
       IN en' = IF error THEN Rowback([e EXCEPT !.errCalls = @ + 1], c.rows, c.i + 1)
                ELSE Rowback(e, c.rows, c.i + 1)
    /\ UNCHANGED <<clientVars, gt, ev, cq, wr>>

\* the application calls the done continuation c of a delivered row
\* (lines 590-596); a continuation is called once
RowDone(c, error) ==
    /\ c \in en.unacked
    /\ LET e == [en EXCEPT !.unacked = @ \ {c}]
       IN en' = IF error THEN [e EXCEPT !.errCalls = @ + 1]
                ELSE Rowback(e, c.rows, c.i + 1)
    /\ UNCHANGED <<clientVars, gt, ev, cq, wr>>

\* the function given to process.nextTick runs (lines 571-583)
NextTick ==
    /\ en.ticks # <<>>
    /\ en' = [en EXCEPT !.ticks = Tail(@), !.requests = Append(@, Head(en.ticks))]
    /\ UNCHANGED <<clientVars, gt, ev, cq, wr>>

EnumInit ==
    /\ BoundInit
    /\ en \in {[EnIdle EXCEPT !.nrows = k, !.stride = s] :
                  k \in 0..MaxRows, s \in 1..MaxStride}
    /\ gt = GtIdle
    /\ ev = EvIdle
    /\ cq = CqIdle
    /\ wr = WrIdle

EnumNext ==
    \/ Enumerate
    \/ \E error \in BOOLEAN : GetRangeSlicesReply(error)
    \/ \E c \in en.unacked, error \in BOOLEAN : RowDone(c, error)
    \/ NextTick

EnumSpec == EnumInit /\ [][EnumNext]_vars

\* the runs in which every page fetch succeeds and the application
\* acknowledges every row with done(); the event loop runs every scheduled
\* function, every request is answered, every row is acknowledged
EnumOkNext ==
    \/ Enumerate
    \/ GetRangeSlicesReply(FALSE)
    \/ \E c \in en.unacked : RowDone(c, FALSE)
    \/ NextTick

EnumFairSpec == EnumInit /\ [][EnumOkNext]_vars /\ WF_vars(EnumOkNext)

(* ---------------------------- get, ready ------------------------------- *)

\* the rows a multiget_slice reply can hold: columns of distinct names,
\* all standard or all super
StdCols == {<<>>} \cup {<<[kind |-> "column", name |-> n, value |-> v, columns |-> <<>>]>> :
                          n \in ColNames, v \in Values}
    \cup {<<[kind |-> "column", name |-> "a", value |-> v, columns |-> <<>>],
            [kind |-> "column", name |-> "b", value |-> w, columns |-> <<>>]>> :
             v \in Values, w \in Values}
SubCols == {<<[name |-> n, value |-> v]>> : n \in SubNames, v \in Values}
    \cup {<<[name |-> "x", value |-> v], [name |-> "y", value |-> "1"]>> : v \in Values}
SuperCols == {<<[kind |-> "super", name |-> n, value |-> "", columns |-> c]>> :
                 n \in ColNames, c \in SubCols}
Replies(rowsOf) == UNION {[D -> rowsOf] : D \in SUBSET RowKeys}

KeyLists == UNION {[1..n -> RowKeys] : n \in 0..MaxKeys}

\* get(keys, callback) on the ready ColumnFamily (lines 272-292): a key
\* that is not an Array becomes a one-element list
Get(keys) ==
    /\ gt.state = "idle"
    /\ gt' = [gt EXCEPT !.keys = keys, !.state = "sent"]
    /\ UNCHANGED <<clientVars, en, ev, cq, wr>>

\* the reply handler of multiget_slice (lines 293-326)
MultigetSliceReply(error, res) ==
    /\ gt.state = "sent"
    /\ gt' = [gt EXCEPT !.state = "done", !.error = error,
                        !.res = IF error THEN <<>> ELSE res,
                        !.calls = IF error THEN 2 ELSE 1,
                        !.result = GetCallbackArg(gt.keys, IF error THEN <<>> ELSE res)]
    /\ UNCHANGED <<clientVars, en, ev, cq, wr>>

GetInit ==
    /\ BoundInit
    /\ en = EnIdle
    /\ gt = GtIdle
    /\ ev = EvIdle
    /\ cq = CqIdle
    /\ wr = WrIdle

GetNext ==
    \/ \E keys \in KeyLists : Get(keys)
    \/ \E error \in BOOLEAN, res \in Replies(StdCols) \cup Replies(SuperCols) :
          MultigetSliceReply(error, res)

GetSpec == GetInit /\ [][GetNext]_vars

(* ======================= enumerate (EnumSpec) ========================== *)

Delivered == {en.delivered[i] : i \in 1..Len(en.delivered)}

\* C6: when every page fetch succeeds and every row is acknowledged with
\* done(), enumerate eventually has called the completion callback, exactly
\* once, and has passed each of the nrows rows to the per-row callback, for
\* every nrows >= 0 and every stride >= 1.
C6_EnumerateCompletes ==
    <>[](en.doneCalls = 1 /\ Delivered = 1..en.nrows)

\* C7: within one enumerate() call no row key is passed to the per-row
\* callback twice, and the rows are delivered in the order the pages return
\* them (ring order): the delivered keys are strictly increasing.
C7_NoRowTwice ==
    \A i, j \in 1..Len(en.delivered) : i < j => en.delivered[i] < en.delivered[j]

\* the row of the first page's last slot, whose key started the second
\* page, has been delivered, and a row after it as well
C7_Witness ==
    /\ en.stride >= 2
    /\ en.nrows > en.stride
    /\ en.stride \in Delivered
    /\ en.stride + 1 \in Delivered

\* C8: at most one delivered row is unacknowledged; while one is, no page
\* request is in flight and none is scheduled, and a step that is not the
\* call of its done continuation delivers no row, requests and schedules no
\* page and does not call the completion callback.
C8_OneRowUnacknowledged ==
    /\ [](/\ Cardinality(en.unacked) <= 1
          /\ en.unacked # {} => (en.requests = <<>> /\ en.ticks = <<>>))
    /\ [][ (en.unacked # {} /\ en.unacked \subseteq en'.unacked)
             => /\ en'.delivered = en.delivered
                /\ en'.requests = en.requests
                /\ en'.ticks = en.ticks
                /\ en'.doneCalls = en.doneCalls
         ]_vars

\* a row in the middle of the scan is waiting for its done continuation
C8_Witness ==
    /\ en.unacked # {}
    /\ Len(en.delivered) >= 2
    /\ Len(en.delivered) < en.nrows

\* C9: done(error) and a failed page fetch each call the error callback
\* once; the error callback is called at most once in all, and once it has
\* been called nothing is in flight, scheduled or unacknowledged, the
\* completion callback has not been and is never called, and no further
\* row is delivered or page requested.
C9_ErrorHaltsScan ==
    /\ [](/\ en.errCalls <= 1
          /\ en.errCalls = 1 => /\ en.doneCalls = 0
                                /\ en.requests = <<>>
                                /\ en.ticks = <<>>
                                /\ en.unacked = {})
    /\ [][ /\ (\E c \in en.unacked : RowDone(c, TRUE)) => en'.errCalls = en.errCalls + 1
           /\ GetRangeSlicesReply(TRUE) => en'.errCalls = en.errCalls + 1
           /\ en.errCalls = 1 => en' = en
         ]_vars

\* the scan was halted in its middle, after a page boundary
C9_Witness ==
    /\ en.errCalls = 1
    /\ Len(en.delivered) >= en.stride
    /\ Len(en.delivered) < en.nrows

(* ============================ get (GetSpec) ============================ *)

\* m is the column-to-value mapping of the row cols
IsRowMapping(m, cols) ==
    /\ DOMAIN m = {cols[i].name : i \in 1..Len(cols)}
    /\ \A i \in 1..Len(cols) :
          IF cols[i].kind = "super"
          THEN /\ DOMAIN m[cols[i].name]
                    = {cols[i].columns[j].name : j \in 1..Len(cols[i].columns)}
               /\ \A j \in 1..Len(cols[i].columns) :
                     m[cols[i].name][cols[i].columns[j].name] = cols[i].columns[j].value
          ELSE m[cols[i].name] = cols[i].value

\* C10: on a successful multiget_slice reply, get with one key passes the
\* callback that row's own column-to-value mapping; get with several keys
\* passes a mapping whose keys are exactly the row keys of the reply, each
\* with its row's mapping, so a requested key without a row is absent.
C10_GetResultShape ==
    (gt.state = "done" /\ ~gt.error) =>
        /\ (Len(gt.keys) = 1 /\ gt.keys[1] \in DOMAIN gt.res)
              => /\ gt.result.defined
                 /\ IsRowMapping(gt.result.value, gt.res[gt.keys[1]])
        /\ Len(gt.keys) > 1
              => /\ gt.result.defined
                 /\ DOMAIN gt.result.value = DOMAIN gt.res
                 /\ \A k \in DOMAIN gt.res :
                       IsRowMapping(gt.result.value[k], gt.res[k])
                 /\ \A n \in 1..Len(gt.keys) :
                       gt.keys[n] \notin DOMAIN gt.res
                          => gt.keys[n] \notin DOMAIN gt.result.value

\* two keys were asked for and the reply holds a row for the first only
C10_Witness ==
    /\ gt.state = "done" /\ ~gt.error
    /\ Len(gt.keys) = 2
    /\ gt.keys[1] \in DOMAIN gt.res
    /\ gt.keys[2] \notin DOMAIN gt.res
    /\ gt.res[gt.keys[1]] # <<>>

(* ================= consistency levels (ConsistencySpec) ================ *)

\* the argument lists after the key that the operations document: columns
\* (a name or an Array of names), then options; on a super column family
\* the super column's name comes first
ShapesOf(cols, objs) ==
    {<<>>} \cup {<<o>> : o \in objs} \cup {<<c>> : c \in cols}
    \cup {<<c, o>> : c \in cols, o \in objs}
StdShapes(cols, objs) == ShapesOf(cols, objs)
SuperShapes(scs, cols, objs) ==
    {<<>>} \cup {<<o>> : o \in objs}
    \cup {<<JsStr(sc)>> \o t : sc \in scs, t \in ShapesOf(cols, objs)}

CqObjs == {JsObj(c) : c \in Levels \cup {Undef}}
CqCols == {JsStr("a"), JsArr(<<"a", "b">>)}
CqShapes == IF IsSuper(1) THEN SuperShapes({"a"}, {JsArr(<<"x", "y">>)}, CqObjs)
            ELSE StdShapes(CqCols, CqObjs)

\* client.consistencyLevel(newCL) (lines 152-154)
SetConsistency(newCL) ==
    /\ cq' = [cq EXCEPT !.defaultCL = ConsistencyLevel(cq.defaultCL, newCL),
                        !.set = TRUE, !.newCL = newCL, !.asked = FALSE]
    /\ UNCHANGED <<clientVars, en, gt, ev, wr>>

\* client.consistencyLevel() (lines 149-150)
GetConsistency ==
    /\ cq' = [cq EXCEPT !.asked = TRUE, !.got = cq.defaultCL]
    /\ UNCHANGED <<clientVars, en, gt, ev, wr>>

\* get, count or remove called with the key and args on the ready
\* ColumnFamily: the request handed to the thrift client
Query(op, args) ==
    /\ LET req == CASE op = "get" ->
                         ReadRequest("multiget_slice", cq.defaultCL, IsSuper(1),
                                     cfs[1].name, args)
                    [] op = "count" ->
                         ReadRequest("multiget_count", cq.defaultCL, IsSuper(1),
                                     cfs[1].name, args)
                    [] op = "remove" ->
                         RemoveRequest(cq.defaultCL, IsSuper(1), cfs[1].name, args, 1)
       IN cq' = [cq EXCEPT !.op = op, !.args = args, !.cl = req.cl,
                           !.tick = ~@]
    /\ UNCHANGED <<clientVars, en, gt, ev, wr>>

\* set called with the key, values and args (no options, or options)
SetQuery(args) ==
    /\ cq' = [cq EXCEPT !.op = "set", !.args = args, !.tick = ~@,
                        !.cl = SetRequest(cq.defaultCL, {}, Shift(args, 1), 1).cl]
    /\ UNCHANGED <<clientVars, en, gt, ev, wr>>

ConsistencyInit ==
    /\ \E name \in Names : BoundInitOf(name)
    /\ en = EnIdle
    /\ gt = GtIdle
    /\ ev = EvIdle
    /\ cq = CqIdle
    /\ wr = WrIdle

ConsistencyNext ==
    \/ \E r \in Levels \cup {Undef}, w \in Levels \cup {Undef} :
          SetConsistency([read |-> r, write |-> w])
    \/ GetConsistency
    \/ \E op \in {"get", "count", "remove"}, args \in CqShapes : Query(op, args)
    \/ \E args \in {<<>>} \cup {<<o>> : o \in CqObjs} : SetQuery(args)

ConsistencySpec == ConsistencyInit /\ [][ConsistencyNext]_vars

\* the consistencyLevel the call itself supplies: that of the options object
\* among its arguments, Undef when there is none or it has none
Override(args) ==
    IF \E k \in 1..Len(args) : args[k].t = "object"
    THEN args[CHOOSE k \in 1..Len(args) : args[k].t = "object"].cl
    ELSE Undef

C14_PartialSetterFallsBackToQuorum ==
    /\ cq.set =>
          /\ cq.defaultCL.read = (IF cq.newCL.read \in Levels THEN cq.newCL.read
                                  ELSE QUORUM)
          /\ cq.defaultCL.write = (IF cq.newCL.write \in Levels THEN cq.newCL.write
                                   ELSE QUORUM)
    /\ (cq.set /\ cq.asked) =>
          /\ cq.got.read = (IF cq.newCL.read \in Levels THEN cq.newCL.read ELSE QUORUM)
          /\ cq.got.write = (IF cq.newCL.write \in Levels THEN cq.newCL.write
                             ELSE QUORUM)

\* the setter was called with a write level only and the getter after it
C14_Witness ==
    /\ cq.set /\ cq.asked
    /\ cq.newCL.read = Undef
    /\ cq.newCL.write \in Levels \ {QUORUM}
    /\ cq.got.read = QUORUM

(* ====================== set and remove (WriteSpec) ===================== *)

\* the values objects set is called with, given by their columns
SetValues ==
    UNION {{{[sc |-> c.sc, col |-> c.col, value |-> f[c]] : c \in D} : f \in [D -> Values]} :
              D \in SUBSET CellsOf(IsSuper(1))}

WrLists(names) ==
    {JsStr(n) : n \in names} \cup {JsArr(<<>>)} \cup {JsArr(<<n>>) : n \in names}
    \cup {JsArr(<<n, m>>) : n \in names, m \in names}
WrShapes == IF IsSuper(1) THEN SuperShapes(ColNames, WrLists(SubNames), {JsObj(Undef)})
            ELSE StdShapes(WrLists(ColNames), {JsObj(Undef)})

\* set('row1', values, callback) on the ready ColumnFamily, and the store
\* applying the batch_mutate
WrSet(values) ==
    /\ LET ts == wr.now * wr.mult
           req == SetRequest(cq.defaultCL, values, JsUndef, ts)
       IN wr' = [wr EXCEPT !.cells = StoreColumns(@, req.columns),
                           !.last = "set", !.ts = ts, !.args = NoArgs]
    /\ UNCHANGED <<clientVars, en, gt, ev, cq>>

\* remove('row1', args..., callback) on the ready ColumnFamily, and the
\* store applying the batch_mutate
WrRemove(args) ==
    /\ LET ts == wr.now * wr.mult
           req == RemoveRequest(cq.defaultCL, IsSuper(1), cfs[1].name, args, ts)
       IN wr' = [wr EXCEPT !.cells = StoreDeletion(@, req.deletion),
                           !.last = "remove", !.ts = ts, !.args = args,
                           !.del = req.deletion]
    /\ UNCHANGED <<clientVars, en, gt, ev, cq>>

\* a millisecond passes
WrTick ==
    /\ wr.now < MaxClock
    /\ wr' = [wr EXCEPT !.now = @ + 1]
    /\ UNCHANGED <<clientVars, en, gt, ev, cq>>

WriteInit ==
    /\ \E name \in Names :
          /\ BoundInitOf(name)
          /\ wr = [WrIdle EXCEPT !.cells = [c \in CellsOf(name = "Super") |-> NoCell]]
    /\ en = EnIdle
    /\ gt = GtIdle
    /\ ev = EvIdle
    /\ cq = CqIdle

WriteNext ==
    \/ \E values \in SetValues : WrSet(values)
    \/ \E args \in WrShapes : WrRemove(args)
    \/ WrTick

WriteSpec == WriteInit /\ [][WriteNext]_vars

\* column c is in the result of get('row1')
Has(view, c) ==
    IF c.sc = Undef THEN c.col \in DOMAIN view
    ELSE c.sc \in DOMAIN view /\ c.col \in DOMAIN view[c.sc]
ValueAt(view, c) == IF c.sc = Undef THEN view[c.col] ELSE view[c.sc][c.col]

\* the super column named first in the arguments of a call on a super
\* column family
NamedSuper(args) ==
    IF IsSuper(1) /\ Len(args) >= 1 /\ args[1].t = "string" THEN args[1].s ELSE Undef
\* the arguments hold a column list, and the list they hold
ListAt(args) == IF IsSuper(1) THEN 2 ELSE 1
HasList(args) ==
    /\ Len(args) >= ListAt(args)
    /\ args[ListAt(args)].t \in {"string", "array"}
    /\ IsSuper(1) => NamedSuper(args) # Undef
ListIn(args) ==
    IF args[ListAt(args)].t = "array" THEN args[ListAt(args)].names
    ELSE <<args[ListAt(args)].s>>

StampInit ==
    /\ \E name \in Names, m \in 1..MaxMult :
          /\ BoundInitOf(name)
          /\ wr = [WrIdle EXCEPT !.cells = [c \in CellsOf(name = "Super") |-> NoCell],
                                 !.mult = m]
    /\ en = EnIdle
    /\ gt = GtIdle
    /\ ev = EvIdle
    /\ cq = CqIdle

StampSpec == StampInit /\ [][WriteNext]_vars

\* C22: when set or remove is called on a ColumnFamily after an earlier set
\* or remove on it, the timestamp of its mutation is greater than that of
\* the earlier one, for every multiplier and also within one millisecond.
C22_TimestampsStrictlyIncrease ==
    [][ (wr.last # "none" /\ wr'.now = wr.now /\ wr' # wr) => wr'.ts > wr.ts ]_vars

====
